---- MODULE Spec2Model ----
(***************************************************************************)
(* The two Retail notebooks (01_Data_Layer, 02_Training_Layer) as one      *)
(* state machine.  A notebook is a flat script: the state is the kernel's  *)
(* variables, the cell being executed and the position inside it, the      *)
(* output area of that cell, the %store database, and the part of the      *)
(* Amazon Personalize / IAM / S3 account the notebooks create resources    *)
(* in.  Every API answer the script branches on (already-exists, the       *)
(* status and failure reason of a describe call, how long a call or a      *)
(* sleep takes) is an input chosen with \E.                                *)
(***************************************************************************)
EXTENDS Integers, Sequences, FiniteSets, TLC

VARIABLES
    cell,        \* index in Cells of the cell being (or about to be) executed
    at,          \* position inside the cell: start, head, body, sleep, aborted, done
    error,       \* name of the exception that stopped the flow, "" when none
    nb,          \* kernel variables holding identifiers (0 = not bound)
    lists,       \* import_job_arns / soln_ver_arns / campaign_arns
    it_index,    \* index held by the reversed() iterator of the running for loop
    item,        \* the loop variable (job_arn, soln_ver_arn, campaign_arn)
    status,      \* the variable `status`
    response,    \* the last describe response received
    now,         \* time.time(), counted from the start of the current wait
    max_time,    \* the variable max_time
    out,         \* what the running (or last run) cell has printed
    svc,         \* the account: named resources in creation order, ARN = position
    store,       \* the %store database
    rounds,      \* passes of the while loop body begun in the current wait
    lastStatus,  \* per ARN, the status most recently read by this kernel
    calls,       \* creation calls issued by this kernel, in order
    run,         \* notebook executions started so far
    roundStart,  \* the pending list as the current pass of the while body found it
    described    \* the identifiers described in that pass, in order

vars == <<cell, at, error, nb, lists, it_index, item, status, response, now, max_time,
          out, svc, store, rounds, lastStatus, calls, run, roundStart, described>>

----------------------------------------------------------------------------
(* Bounds of the exploration *)

\* Sleeps of a wait that last exactly as long as asked; later ones overrun.
MaxRounds == 2
\* Executions of a notebook (the first, and re-executions against the same account).
MaxRuns == 2

\* How long a slow call or an overrunning sleep takes beyond the expected time.
Stall == 3 * 60 * 60

----------------------------------------------------------------------------
(* Vocabulary *)

None == "None"
ACTIVE == "ACTIVE"
CREATE_FAILED == "CREATE FAILED"
CREATE_IN_PROGRESS == "CREATE IN_PROGRESS"
Statuses == {CREATE_IN_PROGRESS, ACTIVE, CREATE_FAILED}
Terminal == {ACTIVE, CREATE_FAILED}
Reasons == {None, "schema mismatch"}

\* an error of a service call that no except clause of the notebooks names
\* (throttling, access denied, invalid input, a resource the service refuses)
ApiError == "ClientError"

Roles == {"interactions", "items", "users"}
Recipes == {"related", "recommend", "ranking"}

Min(a, b) == IF a < b THEN a ELSE b

----------------------------------------------------------------------------
(* Names the notebooks pass to the services *)

\* name = ... of the three create_schema calls
SchemaCreateName(k) ==
    CASE k = "interactions" -> "personalize-immersion-day-retail-schema-interactions"
      [] k = "items" -> "personalize-immersion-day-retail-schema-items"
      [] k = "users" -> "rpersonalize-immersion-day-retail-schema-users"

\* the name each except-branch compares schema_response['name'] with
SchemaLookupName(k) ==
    CASE k = "interactions" -> "personalize-immersion-day-retail-schema-interactions"
      [] k = "items" -> "personalize-immersion-day-retail-schema-items"
      [] k = "users" -> "personalize-immersion-day-retail-schema-users"

SchemaVar(k) ==
    CASE k = "interactions" -> "interactions_schema_arn"
      [] k = "items" -> "items_schema_arn"
      [] k = "users" -> "users_schema_arn"

DatasetName(k) ==
    CASE k = "interactions" -> "personalize-immersion-day-dataset-interactions"
      [] k = "items" -> "personalize-immersion-day-dataset-items"
      [] k = "users" -> "personalize-immersion-day-dataset-users"

DatasetType(k) ==
    CASE k = "interactions" -> "INTERACTIONS"
      [] k = "items" -> "ITEMS"
      [] k = "users" -> "USERS"

DatasetVar(k) ==
    CASE k = "interactions" -> "interactions_dataset_arn"
      [] k = "items" -> "items_dataset_arn"
      [] k = "users" -> "users_dataset_arn"

ImportJobName(k) ==
    CASE k = "interactions" -> "immersion-day-retail-dataset-interactions-import"
      [] k = "items" -> "immersion-day-retail-dataset-items-import"
      [] k = "users" -> "immersion-day-retail-dataset-users-import"

ImportJobVar(k) ==
    CASE k = "interactions" -> "interactions_dataset_import_job_arn"
      [] k = "items" -> "items_dataset_import_job_arn"
      [] k = "users" -> "users_dataset_import_job_arn"

\* the object key each upload_file writes and each dataLocation points at
Filename(k) ==
    CASE k = "interactions" -> "interactions.csv"
      [] k = "items" -> "items.csv"
      [] k = "users" -> "users.csv"

DatasetGroupName == "personalize-immersion-day-retail"
BucketName == "personalize-immersionday-retail"
RoleName == "PersonalizeS3"
PolicyArn == "arn:aws:iam::aws:policy/AmazonS3ReadOnlyAccess"
FilterName == "immersion-day-filter-purchased-products"

\* name = ... of create_solution and of create_campaign (the same strings)
SolutionName(r) ==
    CASE r = "related" -> "amazon-personalize-immersionday-related-products"
      [] r = "recommend" -> "amazon-personalize-immersionday-product-personalization"
      [] r = "ranking" -> "amazon-personalize-immersionday-personalized-ranking"

RecipeArn(r) ==
    CASE r = "related" -> "arn:aws:personalize:::recipe/aws-sims"
      [] r = "recommend" -> "arn:aws:personalize:::recipe/aws-user-personalization"
      [] r = "ranking" -> "arn:aws:personalize:::recipe/aws-personalized-ranking"

SolutionVar(r) ==
    CASE r = "related" -> "related_solution_arn"
      [] r = "recommend" -> "recommend_solution_arn"
      [] r = "ranking" -> "ranking_solution_arn"

SolutionVersionVar(r) ==
    CASE r = "related" -> "related_solution_version_arn"
      [] r = "recommend" -> "recommend_solution_version_arn"
      [] r = "ranking" -> "ranking_solution_version_arn"

CampaignVar(r) ==
    CASE r = "related" -> "related_campaign_arn"
      [] r = "recommend" -> "recommend_campaign_arn"
      [] r = "ranking" -> "ranking_campaign_arn"

\* the identifier variables of the first / second notebook
Stage1Vars ==
    {SchemaVar(k) : k \in Roles} \cup {DatasetVar(k) : k \in Roles}
      \cup {ImportJobVar(k) : k \in Roles} \cup {"dataset_group_arn", "role_arn"}
Stage2Vars ==
    {SolutionVar(r) : r \in Recipes} \cup {SolutionVersionVar(r) : r \in Recipes}
      \cup {CampaignVar(r) : r \in Recipes} \cup {"filter_arn"}
VarNames == Stage1Vars \cup Stage2Vars

\* Stored1 without the dataset group
Stored1_NoDatasetGroup == {"items_dataset_arn", "interactions_dataset_arn", "role_arn"}

\* the identifier variables the last cell of each notebook passes to %store
Stored1 == {"items_dataset_arn", "interactions_dataset_arn", "dataset_group_arn", "role_arn"}

\* Stored2 with the filter ARN left out of the %store line
Stored2_NoFilter == Stage2Vars \ {"filter_arn"}

Stored2 == Stage2Vars

ListNames == {"import_job_arns", "soln_ver_arns", "campaign_arns"}

----------------------------------------------------------------------------
(* The cells, in execution order *)

Cell(op, key) == [op |-> op, key |-> key]

\* Stage1Cells with the wait started before the last import job is submitted
Stage1Cells_WaitEarly ==
    << Cell("create_schema", "interactions"),
       Cell("create_schema", "items"),
       Cell("create_schema", "users"),
       Cell("create_dataset_group", ""),
       Cell("wait_dataset_group", ""),
       Cell("create_dataset", "interactions"),
       Cell("create_dataset", "items"),
       Cell("create_dataset", "users"),
       Cell("create_bucket", ""),
       Cell("upload", ""),
       Cell("put_bucket_policy", ""),
       Cell("create_role", ""),
       Cell("create_dataset_import_job", "interactions"),
       Cell("create_dataset_import_job", "items"),
       Cell("wait_import_jobs", ""),
       Cell("create_dataset_import_job", "users"),
       Cell("store1", "") >>

Stage1Cells ==
    << Cell("create_schema", "interactions"),
       Cell("create_schema", "items"),
       Cell("create_schema", "users"),
       Cell("create_dataset_group", ""),
       Cell("wait_dataset_group", ""),
       Cell("create_dataset", "interactions"),
       Cell("create_dataset", "items"),
       Cell("create_dataset", "users"),
       Cell("create_bucket", ""),
       Cell("upload", ""),
       Cell("put_bucket_policy", ""),
       Cell("create_role", ""),
       Cell("create_dataset_import_job", "interactions"),
       Cell("create_dataset_import_job", "items"),
       Cell("create_dataset_import_job", "users"),
       Cell("wait_import_jobs", ""),
       Cell("store1", "") >>

\* Stage2Cells with the filter created before the campaigns are waited for
Stage2Cells_FilterFirst ==
    << Cell("restore", ""),
       Cell("create_solution", "related"),
       Cell("create_solution_version", "related"),
       Cell("create_solution", "recommend"),
       Cell("create_solution_version", "recommend"),
       Cell("create_solution", "ranking"),
       Cell("create_solution_version", "ranking"),
       Cell("wait_solution_versions", ""),
       Cell("get_solution_metrics", "related"),
       Cell("get_solution_metrics", "recommend"),
       Cell("get_solution_metrics", "ranking"),
       Cell("create_campaign", "related"),
       Cell("create_campaign", "recommend"),
       Cell("create_campaign", "ranking"),
       Cell("create_filter", ""),
       Cell("wait_campaigns", ""),
       Cell("wait_filter", ""),
       Cell("store2", "") >>

Stage2Cells ==
    << Cell("restore", ""),
       Cell("create_solution", "related"),
       Cell("create_solution_version", "related"),
       Cell("create_solution", "recommend"),
       Cell("create_solution_version", "recommend"),
       Cell("create_solution", "ranking"),
       Cell("create_solution_version", "ranking"),
       Cell("wait_solution_versions", ""),
       Cell("get_solution_metrics", "related"),
       Cell("get_solution_metrics", "recommend"),
       Cell("get_solution_metrics", "ranking"),
       Cell("create_campaign", "related"),
       Cell("create_campaign", "recommend"),
       Cell("create_campaign", "ranking"),
       Cell("wait_campaigns", ""),
       Cell("create_filter", ""),
       Cell("wait_filter", ""),
       Cell("store2", "") >>

Cells == Stage1Cells \o Stage2Cells
FirstCell2 == Len(Stage1Cells) + 1

Op == IF cell \in DOMAIN Cells THEN Cells[cell].op ELSE "none"
Key == IF cell \in DOMAIN Cells THEN Cells[cell].key ELSE ""
At(op, key) == at = "start" /\ Op = op /\ Key = key

----------------------------------------------------------------------------
(* The account *)

\* ARN of the resource of that kind and name, 0 when there is none
Lookup(kind, name) ==
    IF \E i \in DOMAIN svc : svc[i].kind = kind /\ svc[i].name = name
    THEN CHOOSE i \in DOMAIN svc : svc[i].kind = kind /\ svc[i].name = name
    ELSE 0

\* the account after a resource is created; its ARN is fresh
Created(kind, name) == Append(svc, [kind |-> kind, name |-> name, arn |-> Len(svc) + 1])
FreshArn == Len(svc) + 1

IsSchema(r) == r.kind = "schema"

\* personalize.list_schemas(maxResults = n)['schemas']
ListSchemas(n) ==
    LET all == SelectSeq(svc, IsSchema)
    IN  [i \in 1..Min(n, Len(all)) |-> [name |-> all[i].name, schemaArn |-> all[i].arn]]

MaxResults == 100

----------------------------------------------------------------------------
(* Python and boto3 helpers *)

\* dict.get(key): None when the key is absent
Get(d, key) == IF key \in DOMAIN d THEN d[key] ELSE None

\* truth value of a string or None in an if
Truthy(v) == v # None /\ v # ""

NoResponse == [k \in {} |-> None]

\* a describe_* response: the resource's description under the resource's key
DescribeResponse(resource, s, r) == (resource :> [status |-> s, failureReason |-> r])

\* list.pop() in the place of list.remove(x)
Remove_Pop(l, x) == SubSeq(l, 1, Len(l) - 1)

\* list.remove(x): the list without the first occurrence of x
Remove(l, x) ==
    LET i == CHOOSE j \in 1..Len(l) : l[j] = x /\ \A h \in 1..(j - 1) : l[h] # x
    IN  [j \in 1..(Len(l) - 1) |-> IF j < i THEN l[j] ELSE l[j + 1]]

\* the for loop of the except branch: the variable after scanning `schemas` for
\* `name`, starting from value v (every match assigns; there is no break)
RECURSIVE ScanSchemas(_, _, _)
ScanSchemas(schemas, name, v) ==
    IF schemas = <<>> THEN v
    ELSE ScanSchemas(Tail(schemas), name,
                     IF Head(schemas).name = name THEN Head(schemas).schemaArn ELSE v)

Msg(m, a, t) == [msg |-> m, arn |-> a, text |-> t]

\* a record of an API call that creates or changes something
Call(op, name, args, data, result) ==
    [op |-> op, name |-> name, args |-> args, data |-> data, result |-> result,
     seen |-> [i \in DOMAIN args |-> lastStatus[args[i]]]]

----------------------------------------------------------------------------
(* The state a fresh kernel starts in *)

ArnRange == 0..(Len(Cells) + 1)

FreshKernel(nbv) ==
    /\ nb' = nbv
    /\ lists' = [l \in ListNames |-> <<>>]
    /\ it_index' = -1
    /\ item' = 0
    /\ status' = None
    /\ response' = NoResponse
    /\ now' = 0
    /\ max_time' = 0
    /\ out' = <<>>
    /\ rounds' = 0
    /\ lastStatus' = [a \in ArnRange |-> None]
    /\ calls' = <<>>
    /\ roundStart' = <<>>
    /\ described' = <<>>

\* The account before the first execution: empty, or holding a role of the
\* notebook's role name left by another notebook (the case create_role's except
\* clause is written for).
Accounts == { <<>>, <<[kind |-> "role", name |-> RoleName, arn |-> 1]>> }

Init ==
    /\ cell = 1
    /\ at = "start"
    /\ error = ""
    /\ nb = [v \in VarNames |-> 0]
    /\ lists = [l \in ListNames |-> <<>>]
    /\ it_index = -1
    /\ item = 0
    /\ status = None
    /\ response = NoResponse
    /\ now = 0
    /\ max_time = 0
    /\ out = <<>>
    /\ svc \in Accounts
    /\ store = [v \in VarNames |-> 0]
    /\ rounds = 0
    /\ lastStatus = [a \in ArnRange |-> None]
    /\ calls = <<>>
    /\ run = 1
    /\ roundStart = <<>>
    /\ described = <<>>

\* the cell ends and the next one is up
Finish ==
    /\ cell' = cell + 1
    /\ at' = IF cell = Len(Cells) THEN "done" ELSE "start"
    /\ error' = error

\* an exception nobody catches: the cell stops and the flow with it
Abort(e) ==
    /\ at' = "aborted"
    /\ error' = e
    /\ cell' = cell

Loop == <<lists, it_index, item, status, response, now, max_time, rounds, lastStatus,
          roundStart, described>>

----------------------------------------------------------------------------
(* Creation cells *)

\* CreateOrRaise with the already-exists signal caught and the identifier
\* looked up by name
CreateOrRaise_Recovers(op, kind, name, var, args, data) ==
    /\ svc' = IF Lookup(kind, name) # 0 THEN svc ELSE Created(kind, name)
    /\ nb' = [nb EXCEPT ![var] = IF Lookup(kind, name) # 0 THEN Lookup(kind, name) ELSE FreshArn]
    /\ calls' = Append(calls, Call(op, name, args, data,
                                   IF Lookup(kind, name) # 0 THEN 0 ELSE FreshArn))
    /\ out' = <<>>
    /\ Finish
    /\ UNCHANGED <<Loop, store, run>>

\* A creation call outside any try: a fresh ARN bound to var, or the
\* already-exists exception of the service, which nothing catches.
CreateOrRaise(op, kind, name, var, args, data) ==
    /\ IF Lookup(kind, name) # 0
       THEN /\ Abort("ResourceAlreadyExistsException")
            /\ calls' = Append(calls, Call(op, name, args, data, 0))
            /\ out' = <<>>
            /\ UNCHANGED <<nb, svc>>
       ELSE /\ svc' = Created(kind, name)
            /\ nb' = [nb EXCEPT ![var] = FreshArn]
            /\ calls' = Append(calls, Call(op, name, args, data, FreshArn))
            /\ out' = <<Msg("response", FreshArn, "")>>
            /\ Finish
    /\ UNCHANGED <<Loop, store, run>>

\* try: create_schema ... except ResourceAlreadyExistsException: list_schemas, scan
CreateSchema(k) ==
    /\ At("create_schema", k)
    /\ IF Lookup("schema", SchemaCreateName(k)) = 0
       THEN /\ svc' = Created("schema", SchemaCreateName(k))
            /\ nb' = [nb EXCEPT ![SchemaVar(k)] = FreshArn]
            /\ calls' = Append(calls, Call("create_schema", SchemaCreateName(k), <<>>, "", FreshArn))
            /\ out' = <<Msg("response", FreshArn, "")>>
       ELSE LET found == ScanSchemas(ListSchemas(MaxResults), SchemaLookupName(k), 0)
            IN  /\ svc' = svc
                /\ nb' = [nb EXCEPT ![SchemaVar(k)] =
                             ScanSchemas(ListSchemas(MaxResults), SchemaLookupName(k), @)]
                /\ calls' = Append(calls, Call("create_schema", SchemaCreateName(k), <<>>, "", 0))
                /\ out' = <<Msg("You aready created this schema, seemingly", 0, "")>>
                            \o (IF found # 0 THEN <<Msg("Using existing schema", found, "")>>
                                ELSE <<>>)
    /\ Finish
    /\ UNCHANGED <<Loop, store, run>>

CreateDatasetGroup ==
    /\ At("create_dataset_group", "")
    /\ CreateOrRaise("create_dataset_group", "datasetGroup", DatasetGroupName,
                     "dataset_group_arn", <<>>, "")

\* CreateDataset passing the Interactions schema whatever the dataset
CreateDataset_InteractionsSchema(k) ==
    /\ At("create_dataset", k)
    /\ CreateOrRaise("create_dataset", "dataset", DatasetName(k), DatasetVar(k),
                     <<nb["dataset_group_arn"], nb[SchemaVar("interactions")]>>, DatasetType(k))

CreateDataset(k) ==
    /\ At("create_dataset", k)
    /\ CreateOrRaise("create_dataset", "dataset", DatasetName(k), DatasetVar(k),
                     <<nb["dataset_group_arn"], nb[SchemaVar(k)]>>, DatasetType(k))

\* s3.create_bucket: the notebook keeps no identifier but the name it built
CreateBucket ==
    /\ At("create_bucket", "")
    /\ IF Lookup("bucket", BucketName) # 0
       THEN /\ Abort("BucketAlreadyOwnedByYou")
            /\ UNCHANGED svc
       ELSE /\ svc' = Created("bucket", BucketName)
            /\ Finish
    /\ calls' = Append(calls, Call("create_bucket", BucketName, <<>>, "", 0))
    /\ out' = <<>>
    /\ UNCHANGED <<Loop, nb, store, run>>

\* the three upload_file calls: users, items, interactions
Upload ==
    /\ At("upload", "")
    /\ calls' = calls \o << Call("upload_file", BucketName, <<>>, Filename("users"), 0),
                            Call("upload_file", BucketName, <<>>, Filename("items"), 0),
                            Call("upload_file", BucketName, <<>>, Filename("interactions"), 0) >>
    /\ out' = <<>>
    /\ Finish
    /\ UNCHANGED <<Loop, nb, svc, store, run>>

PutBucketPolicy ==
    /\ At("put_bucket_policy", "")
    /\ calls' = Append(calls, Call("put_bucket_policy", BucketName, <<>>, "", 0))
    /\ out' = <<>>
    /\ Finish
    /\ UNCHANGED <<Loop, nb, svc, store, run>>

\* CreateRole without the attach_role_policy call
CreateRole_NoAttach ==
    /\ At("create_role", "")
    /\ LET existing == Lookup("role", RoleName)
           arn == IF existing = 0 THEN FreshArn ELSE existing
       IN  /\ svc' = IF existing = 0 THEN Created("role", RoleName) ELSE svc
           /\ nb' = [nb EXCEPT !["role_arn"] = arn]
           /\ calls' = calls
                 \o (IF existing = 0
                     THEN << Call("create_role", RoleName, <<>>, "", arn) >>
                     ELSE << Call("create_role", RoleName, <<>>, "", 0),
                             Call("get_role", RoleName, <<>>, "", arn) >>)
           /\ out' = (IF existing = 0 THEN <<>>
                      ELSE <<Msg("Warning: role already exists:", 0, "")>>)
                     \o <<Msg("IAM Role:", arn, ""), Msg("Done.", 0, "")>>
    /\ Finish
    /\ UNCHANGED <<Loop, store, run>>

\* CreateRole with attach_role_policy inside the try, after create_role
CreateRole_AttachInTry ==
    /\ At("create_role", "")
    /\ LET existing == Lookup("role", RoleName)
           arn == IF existing = 0 THEN FreshArn ELSE existing
       IN  /\ svc' = IF existing = 0 THEN Created("role", RoleName) ELSE svc
           /\ nb' = [nb EXCEPT !["role_arn"] = arn]
           /\ calls' = calls
                 \o (IF existing = 0
                     THEN << Call("create_role", RoleName, <<>>, "", arn),
                             Call("attach_role_policy", RoleName, <<>>, PolicyArn, 0) >>
                     ELSE << Call("create_role", RoleName, <<>>, "", 0),
                             Call("get_role", RoleName, <<>>, "", arn) >>)
           /\ out' = (IF existing = 0 THEN <<>>
                      ELSE <<Msg("Warning: role already exists:", 0, "")>>)
                     \o <<Msg("IAM Role:", arn, ""), Msg("Done.", 0, "")>>
    /\ Finish
    /\ UNCHANGED <<Loop, store, run>>

\* try: create_role except EntityAlreadyExistsException: get_role; then
\* role_arn = ...["Role"]["Arn"], attach_role_policy, time.sleep(30)
CreateRole ==
    /\ At("create_role", "")
    /\ LET existing == Lookup("role", RoleName)
           arn == IF existing = 0 THEN FreshArn ELSE existing
       IN  /\ svc' = IF existing = 0 THEN Created("role", RoleName) ELSE svc
           /\ nb' = [nb EXCEPT !["role_arn"] = arn]
           /\ calls' = calls
                 \o (IF existing = 0
                     THEN << Call("create_role", RoleName, <<>>, "", arn) >>
                     ELSE << Call("create_role", RoleName, <<>>, "", 0),
                             Call("get_role", RoleName, <<>>, "", arn) >>)
                 \o << Call("attach_role_policy", RoleName, <<>>, PolicyArn, 0) >>
           /\ out' = (IF existing = 0 THEN <<>>
                      ELSE <<Msg("Warning: role already exists:", 0, "")>>)
                     \o <<Msg("IAM Role:", arn, ""), Msg("Done.", 0, "")>>
    /\ Finish
    /\ UNCHANGED <<Loop, store, run>>

CreateImportJob(k) ==
    /\ At("create_dataset_import_job", k)
    /\ CreateOrRaise("create_dataset_import_job", "datasetImportJob", ImportJobName(k),
                     ImportJobVar(k), <<nb[DatasetVar(k)], nb["role_arn"]>>, Filename(k))

CreateSolution(r) ==
    /\ At("create_solution", r)
    /\ CreateOrRaise("create_solution", "solution", SolutionName(r), SolutionVar(r),
                     <<nb["dataset_group_arn"]>>, RecipeArn(r))

\* CreateSolutionVersion issuing its call a second time
CreateSolutionVersion_Twice(r) ==
    /\ At("create_solution_version", r)
    /\ svc' = Append(Created("solutionVersion", SolutionName(r)),
                     [kind |-> "solutionVersion", name |-> SolutionName(r), arn |-> FreshArn + 1])
    /\ nb' = [nb EXCEPT ![SolutionVersionVar(r)] = FreshArn + 1]
    /\ calls' = calls \o
          << Call("create_solution_version", "", <<nb[SolutionVar(r)]>>, "", FreshArn),
             Call("create_solution_version", "", <<nb[SolutionVar(r)]>>, "", FreshArn + 1) >>
    /\ out' = <<Msg("response", FreshArn + 1, "")>>
    /\ Finish
    /\ UNCHANGED <<Loop, store, run>>

\* create_solution_version takes no name: every call makes a new version
CreateSolutionVersion(r) ==
    /\ At("create_solution_version", r)
    /\ svc' = Created("solutionVersion", SolutionName(r))
    /\ nb' = [nb EXCEPT ![SolutionVersionVar(r)] = FreshArn]
    /\ calls' = Append(calls, Call("create_solution_version", "", <<nb[SolutionVar(r)]>>, "", FreshArn))
    /\ out' = <<Msg("response", FreshArn, "")>>
    /\ Finish
    /\ UNCHANGED <<Loop, store, run>>

GetSolutionMetrics(r) ==
    /\ At("get_solution_metrics", r)
    /\ calls' = Append(calls, Call("get_solution_metrics", "", <<nb[SolutionVersionVar(r)]>>, "", 0))
    /\ out' = <<Msg("response", 0, "")>>
    /\ Finish
    /\ UNCHANGED <<Loop, nb, svc, store, run>>

\* CreateCampaign wrapping the related-products version whatever the campaign
CreateCampaign_RelatedVersion(r) ==
    /\ At("create_campaign", r)
    /\ CreateOrRaise("create_campaign", "campaign", SolutionName(r), CampaignVar(r),
                     <<nb[SolutionVersionVar("related")]>>, "minProvisionedTPS = 1")

CreateCampaign(r) ==
    /\ At("create_campaign", r)
    /\ CreateOrRaise("create_campaign", "campaign", SolutionName(r), CampaignVar(r),
                     <<nb[SolutionVersionVar(r)]>>, "minProvisionedTPS = 1")

CreateFilter ==
    /\ At("create_filter", "")
    /\ CreateOrRaise("create_filter", "filter", FilterName, "filter_arn",
                     <<nb["dataset_group_arn"]>>, "EXCLUDE itemId")

----------------------------------------------------------------------------
(* Service calls that raise an error other than the handled ones *)

\* the cells that start with a service call
CallCells ==
    {"create_schema", "create_dataset_group", "create_dataset", "create_bucket", "upload",
     "put_bucket_policy", "create_role", "create_dataset_import_job", "create_solution",
     "create_solution_version", "get_solution_metrics", "create_campaign", "create_filter"}

\* CallRaises with the error caught and the flow going on
CallRaises_Swallowed ==
    /\ at = "start"
    /\ Op \in CallCells
    /\ cell' = cell + 1
    /\ at' = IF cell = Len(Cells) THEN "done" ELSE "start"
    /\ error' = ApiError
    /\ out' = <<>>
    /\ UNCHANGED <<Loop, nb, svc, store, calls, run>>

\* the first call of a cell raises: no except clause matches (the two try
\* statements name only the already-exists exceptions), nothing is assigned
CallRaises ==
    /\ at = "start"
    /\ Op \in CallCells
    /\ Abort(ApiError)
    /\ out' = <<>>
    /\ UNCHANGED <<Loop, nb, svc, store, calls, run>>

\* inside the except branch of a schema cell, list_schemas raises
ListSchemasRaises(k) ==
    /\ At("create_schema", k)
    /\ Lookup("schema", SchemaCreateName(k)) # 0
    /\ calls' = Append(calls, Call("create_schema", SchemaCreateName(k), <<>>, "", 0))
    /\ out' = <<Msg("You aready created this schema, seemingly", 0, "")>>
    /\ Abort(ApiError)
    /\ UNCHANGED <<Loop, nb, svc, store, run>>

\* the role cell stopped by get_role (in the except branch, before role_arn is
\* assigned) or by attach_role_policy (after it)
RoleCallRaises(c) ==
    /\ At("create_role", "")
    /\ LET existing == Lookup("role", RoleName)
           arn == IF existing = 0 THEN FreshArn ELSE existing
       IN  IF c = "get_role"
           THEN /\ existing # 0
                /\ calls' = Append(calls, Call("create_role", RoleName, <<>>, "", 0))
                /\ out' = <<Msg("Warning: role already exists:", 0, "")>>
                /\ UNCHANGED <<nb, svc>>
           ELSE /\ svc' = IF existing = 0 THEN Created("role", RoleName) ELSE svc
                /\ nb' = [nb EXCEPT !["role_arn"] = arn]
                /\ calls' = calls
                      \o (IF existing = 0
                          THEN << Call("create_role", RoleName, <<>>, "", arn) >>
                          ELSE << Call("create_role", RoleName, <<>>, "", 0),
                                  Call("get_role", RoleName, <<>>, "", arn) >>)
                /\ out' = (IF existing = 0 THEN <<>>
                           ELSE <<Msg("Warning: role already exists:", 0, "")>>)
                          \o <<Msg("IAM Role:", arn, "")>>
    /\ Abort(ApiError)
    /\ UNCHANGED <<Loop, store, run>>

\* the n-th upload_file raises, the ones before it done
UploadRaises(n) ==
    /\ At("upload", "")
    /\ calls' = calls \o SubSeq(<< Call("upload_file", BucketName, <<>>, Filename("users"), 0),
                                   Call("upload_file", BucketName, <<>>, Filename("items"), 0) >>,
                                1, n - 1)
    /\ out' = <<>>
    /\ Abort(ApiError)
    /\ UNCHANGED <<Loop, nb, svc, store, run>>

----------------------------------------------------------------------------
(* %store, %store -r and re-execution *)

\* the last cell of the first notebook
Store1 ==
    /\ At("store1", "")
    /\ store' = [v \in VarNames |-> IF v \in Stored1 THEN nb[v] ELSE store[v]]
    /\ out' = <<>>
    /\ Finish
    /\ UNCHANGED <<Loop, nb, svc, calls, run>>

\* the first cell of the second notebook, in a kernel of its own
Restore ==
    /\ At("restore", "")
    /\ FreshKernel([v \in VarNames |-> store[v]])
    /\ Finish
    /\ UNCHANGED <<svc, store, run>>

\* the last cell of the second notebook
Store2 ==
    /\ At("store2", "")
    /\ store' = [v \in VarNames |-> IF v \in Stored2 THEN nb[v] ELSE store[v]]
    /\ out' = <<>>
    /\ Finish
    /\ UNCHANGED <<Loop, nb, svc, calls, run>>

\* A notebook is executed again from its first cell in a restarted kernel,
\* against the same account and the same %store database: either notebook once
\* the flow has ended or an already-exists signal has stopped it, the first one
\* also once it has run through.  (A flow stopped by another error is explored
\* no further.)
Rerun(first) ==
    /\ \/ at = "done"
       \/ at = "aborted" /\ error # ApiError
       \/ cell = FirstCell2 /\ at = "start" /\ first = 1
    /\ run < MaxRuns
    /\ run' = run + 1
    /\ cell' = first
    /\ at' = "start"
    /\ error' = ""
    /\ FreshKernel([v \in VarNames |-> 0])
    /\ UNCHANGED <<svc, store>>

----------------------------------------------------------------------------
(* The polling loops *)

MultiWaits == {"wait_import_jobs", "wait_solution_versions", "wait_campaigns"}
SingleWaits == {"wait_dataset_group", "wait_filter"}

\* the list each multi-resource wait polls
ListOf(op) ==
    CASE op = "wait_import_jobs" -> "import_job_arns"
      [] op = "wait_solution_versions" -> "soln_ver_arns"
      [] op = "wait_campaigns" -> "campaign_arns"

\* the list literal the cell starts from
InitialList(op) ==
    CASE op = "wait_import_jobs" ->
             << nb[ImportJobVar("items")], nb[ImportJobVar("users")],
                nb[ImportJobVar("interactions")] >>
      [] op = "wait_solution_versions" ->
             << nb[SolutionVersionVar("related")], nb[SolutionVersionVar("recommend")],
                nb[SolutionVersionVar("ranking")] >>
      [] op = "wait_campaigns" ->
             << nb[CampaignVar("related")], nb[CampaignVar("recommend")],
                nb[CampaignVar("ranking")] >>

\* the key of a describe response under which the resource is described
ResourceKey(op) ==
    CASE op = "wait_import_jobs" -> "datasetImportJob"
      [] op = "wait_solution_versions" -> "solutionVersion"
      [] op = "wait_campaigns" -> "campaign"
      [] op = "wait_dataset_group" -> "datasetGroup"
      [] op = "wait_filter" -> "filter"

\* the identifier a single-resource wait describes
SingleArn(op) ==
    CASE op = "wait_dataset_group" -> nb["dataset_group_arn"]
      [] op = "wait_filter" -> nb["filter_arn"]

\* MaxWait with the filter's wait given the 3 hours of the others
MaxWait_AllThreeHours(op) == 3 * 60 * 60

\* max_time - time.time() at the start of each wait
MaxWait(op) == IF op = "wait_filter" THEN 60 * 60 ELSE 3 * 60 * 60

SleepMulti == 60
SleepSingle == 15

\* SleepOf backing off: the sleep growing with the rounds run
SleepOf_BacksOff(op) == (IF op \in MultiWaits THEN SleepMulti ELSE SleepSingle) * rounds

\* the argument of time.sleep in each wait
SleepOf(op) == IF op \in MultiWaits THEN SleepMulti ELSE SleepSingle

\* how long a describe call may take: no time, or a stall (explored before the
\* deadline only)
Latencies == IF now < max_time THEN {0, Stall} ELSE {0}

\* by how much a sleep may overrun
Overruns == IF rounds < MaxRounds THEN {0, Stall} ELSE {Stall}

\* the failure reasons a description of that status may carry
ReasonsOf(s) == IF s = CREATE_FAILED THEN Reasons ELSE {None}

\* max_time = time.time() + ...; the clock of the model restarts with the wait
WaitStart ==
    /\ at = "start"
    /\ Op \in MultiWaits \cup SingleWaits
    /\ now' = 0
    /\ max_time' = now' + MaxWait(Op)
    /\ rounds' = 0
    /\ out' = <<>>
    /\ lists' = IF Op \in MultiWaits THEN [lists EXCEPT ![ListOf(Op)] = InitialList(Op)]
                ELSE lists
    /\ status' = IF Op \in SingleWaits THEN None ELSE status
    /\ at' = "head"
    /\ roundStart' = <<>>
    /\ described' = <<>>
    /\ UNCHANGED <<cell, error, nb, it_index, item, response, svc, store, lastStatus,
                   calls, run>>

\* WhileHead raising once the deadline has passed
WhileHead_RaisesOnTimeout ==
    /\ at = "head"
    /\ IF now < max_time
       THEN /\ at' = "body"
            /\ cell' = cell
            /\ error' = error
            /\ rounds' = rounds + 1
            /\ it_index' = IF Op \in MultiWaits THEN Len(lists[ListOf(Op)]) - 1 ELSE it_index
            /\ roundStart' = IF Op \in MultiWaits THEN lists[ListOf(Op)] ELSE roundStart
            /\ described' = <<>>
       ELSE /\ Abort("TimeoutError")
            /\ UNCHANGED <<rounds, it_index, roundStart, described>>
    /\ UNCHANGED <<nb, lists, item, status, response, now, max_time, out, svc, store,
                   lastStatus, calls, run>>

\* WhileHead with an else clause on the while that prints the closing message
WhileHead_AnnouncesEnd ==
    /\ at = "head"
    /\ IF now < max_time
       THEN /\ at' = "body"
            /\ cell' = cell
            /\ error' = error
            /\ rounds' = rounds + 1
            /\ it_index' = IF Op \in MultiWaits THEN Len(lists[ListOf(Op)]) - 1 ELSE it_index
            /\ roundStart' = IF Op \in MultiWaits THEN lists[ListOf(Op)] ELSE roundStart
            /\ described' = <<>>
            /\ out' = out
       ELSE /\ Finish
            /\ out' = Append(out, Msg("All have ended", 0, ""))
            /\ UNCHANGED <<rounds, it_index, roundStart, described>>
    /\ UNCHANGED <<nb, lists, item, status, response, now, max_time, svc, store,
                   lastStatus, calls, run>>

\* while time.time() < max_time:
WhileHead ==
    /\ at = "head"
    /\ IF now < max_time
       THEN /\ at' = "body"
            /\ cell' = cell
            /\ error' = error
            /\ rounds' = rounds + 1
            /\ it_index' = IF Op \in MultiWaits THEN Len(lists[ListOf(Op)]) - 1 ELSE it_index
            /\ roundStart' = IF Op \in MultiWaits THEN lists[ListOf(Op)] ELSE roundStart
            /\ described' = <<>>
       ELSE /\ Finish
            /\ UNCHANGED <<rounds, it_index, roundStart, described>>
    /\ UNCHANGED <<nb, lists, item, status, response, now, max_time, out, svc, store,
                   lastStatus, calls, run>>

\* what the body of the for loop prints for a response
Outcome(op, arn, resp) ==
    LET s == resp[ResourceKey(op)].status
    IN  IF s = ACTIVE THEN <<Msg("successfully completed", arn, "")>>
        ELSE IF s = CREATE_FAILED
        THEN <<Msg("failed", arn, "")>>
               \o (IF Truthy(Get(resp, "failureReason"))
                   THEN <<Msg("Reason", arn, resp["failureReason"])>>
                   ELSE <<>>)
        ELSE <<>>

\* Handled removing the identifier whatever its status
Handled_RemovesAny(l, arn, s) == Remove(l, arn)

\* Handled with the removal of the CREATE FAILED branch left out
Handled_KeepFailed(l, arn, s) == IF s = ACTIVE THEN Remove(l, arn) ELSE l

\* the list after the body of the for loop has handled a status
Handled(l, arn, s) == IF s = ACTIVE \/ s = CREATE_FAILED THEN Remove(l, arn) ELSE l

\* ForBody iterating over the list itself, from its first element on
ForBody_Forward(s, r, d) ==
    /\ at = "body"
    /\ Op \in MultiWaits
    /\ Len(described) < Len(lists[ListOf(Op)])
    /\ LET arn == lists[ListOf(Op)][Len(described) + 1]
           resp == DescribeResponse(ResourceKey(Op), s, r)
       IN  /\ item' = arn
           /\ it_index' = it_index - 1
           /\ response' = resp
           /\ status' = resp[ResourceKey(Op)].status
           /\ lastStatus' = [lastStatus EXCEPT ![arn] = s]
           /\ now' = now + d
           /\ out' = out \o Outcome(Op, arn, resp)
           /\ lists' = [lists EXCEPT ![ListOf(Op)] = Handled(@, arn, status')]
           /\ described' = Append(described, arn)
    /\ UNCHANGED <<cell, at, error, nb, max_time, svc, store, rounds, calls, run, roundStart>>

\* ForBody testing the deadline before each describe and leaving the cell
\* once it has passed
ForBody_ChecksDeadline(s, r, d) ==
    /\ at = "body"
    /\ Op \in MultiWaits
    /\ it_index >= 0
    /\ it_index < Len(lists[ListOf(Op)])
    /\ IF now < max_time
       THEN LET arn == lists[ListOf(Op)][it_index + 1]
                resp == DescribeResponse(ResourceKey(Op), s, r)
            IN  /\ item' = arn
                /\ it_index' = it_index - 1
                /\ response' = resp
                /\ status' = resp[ResourceKey(Op)].status
                /\ lastStatus' = [lastStatus EXCEPT ![arn] = s]
                /\ now' = now + d
                /\ out' = out \o Outcome(Op, arn, resp)
                /\ lists' = [lists EXCEPT ![ListOf(Op)] = Handled(@, arn, status')]
                /\ described' = Append(described, arn)
                /\ UNCHANGED <<cell, at, error>>
       ELSE /\ Finish
            /\ UNCHANGED <<item, it_index, response, status, lastStatus, now, out, lists,
                           described>>
    /\ UNCHANGED <<nb, max_time, svc, store, rounds, calls, run, roundStart>>

\* one pass of: for job_arn in reversed(import_job_arns): describe, branch
ForBody(s, r, d) ==
    /\ at = "body"
    /\ Op \in MultiWaits
    /\ it_index >= 0
    /\ it_index < Len(lists[ListOf(Op)])
    /\ LET arn == lists[ListOf(Op)][it_index + 1]
           resp == DescribeResponse(ResourceKey(Op), s, r)
       IN  /\ item' = arn
           /\ it_index' = it_index - 1
           /\ response' = resp
           /\ status' = resp[ResourceKey(Op)].status
           /\ lastStatus' = [lastStatus EXCEPT ![arn] = s]
           /\ now' = now + d
           /\ out' = out \o Outcome(Op, arn, resp)
           /\ lists' = [lists EXCEPT ![ListOf(Op)] = Handled(@, arn, status')]
           /\ described' = Append(described, arn)
    /\ UNCHANGED <<cell, at, error, nb, max_time, svc, store, rounds, calls, run, roundStart>>

\* ForDone with the test len(...) >= 0
ForDone_AlwaysSleeps ==
    /\ at = "body"
    /\ Op \in MultiWaits
    /\ ~(it_index >= 0 /\ it_index < Len(lists[ListOf(Op)]))
    /\ out' = Append(out, Msg("still in progress", 0, ""))
    /\ at' = "sleep"
    /\ cell' = cell
    /\ error' = error
    /\ roundStart' = <<>>
    /\ described' = <<>>
    /\ UNCHANGED <<nb, lists, it_index, item, status, response, now, max_time, rounds,
                   lastStatus, svc, store, calls, run>>

\* the for loop is exhausted: if len(...) > 0: print, sleep  else: print, break
ForDone ==
    /\ at = "body"
    /\ Op \in MultiWaits
    /\ ~(it_index >= 0 /\ it_index < Len(lists[ListOf(Op)]))
    /\ IF Len(lists[ListOf(Op)]) > 0
       THEN /\ out' = Append(out, Msg("still in progress", 0, ""))
            /\ at' = "sleep"
            /\ cell' = cell
            /\ error' = error
       ELSE /\ out' = Append(out, Msg("All have ended", 0, ""))
            /\ Finish
    /\ roundStart' = <<>>
    /\ described' = <<>>
    /\ UNCHANGED <<nb, lists, it_index, item, status, response, now, max_time, rounds,
                   lastStatus, svc, store, calls, run>>

\* SingleBody raising when the resource is found CREATE FAILED
SingleBody_Escalates(s, r, d) ==
    /\ at = "body"
    /\ Op \in SingleWaits
    /\ LET arn == SingleArn(Op)
           resp == DescribeResponse(ResourceKey(Op), s, r)
       IN  /\ response' = resp
           /\ status' = resp[ResourceKey(Op)].status
           /\ lastStatus' = [lastStatus EXCEPT ![arn] = s]
           /\ now' = now + d
           /\ out' = Append(out, Msg("status", arn, status'))
           /\ IF status' = ACTIVE THEN Finish
              ELSE IF status' = CREATE_FAILED THEN Abort("CreateFailed")
              ELSE at' = "sleep" /\ cell' = cell /\ error' = error
    /\ UNCHANGED <<nb, lists, it_index, item, max_time, svc, store, rounds, calls, run,
                   roundStart, described>>

\* SingleBody with the break taken on ACTIVE only
SingleBody_OnlyActive(s, r, d) ==
    /\ at = "body"
    /\ Op \in SingleWaits
    /\ LET arn == SingleArn(Op)
           resp == DescribeResponse(ResourceKey(Op), s, r)
       IN  /\ response' = resp
           /\ status' = resp[ResourceKey(Op)].status
           /\ lastStatus' = [lastStatus EXCEPT ![arn] = s]
           /\ now' = now + d
           /\ out' = Append(out, Msg("status", arn, status'))
           /\ IF status' = ACTIVE
              THEN Finish
              ELSE at' = "sleep" /\ cell' = cell /\ error' = error
    /\ UNCHANGED <<nb, lists, it_index, item, max_time, svc, store, rounds, calls, run,
                   roundStart, described>>

\* the body of a single-resource wait: describe, print, break on a terminal status
SingleBody(s, r, d) ==
    /\ at = "body"
    /\ Op \in SingleWaits
    /\ LET arn == SingleArn(Op)
           resp == DescribeResponse(ResourceKey(Op), s, r)
       IN  /\ response' = resp
           /\ status' = resp[ResourceKey(Op)].status
           /\ lastStatus' = [lastStatus EXCEPT ![arn] = s]
           /\ now' = now + d
           /\ out' = Append(out, Msg("status", arn, status'))
           /\ IF status' = ACTIVE \/ status' = CREATE_FAILED
              THEN Finish
              ELSE at' = "sleep" /\ cell' = cell /\ error' = error
    /\ UNCHANGED <<nb, lists, it_index, item, max_time, svc, store, rounds, calls, run,
                   roundStart, described>>

\* Sleep returning at once, the clock where it was
Sleep_ClockStuck(extra) ==
    /\ at = "sleep"
    /\ now' = now
    /\ at' = "head"
    /\ UNCHANGED <<cell, error, nb, lists, it_index, item, status, response, max_time,
                   out, svc, store, rounds, lastStatus, calls, run, roundStart, described>>

\* time.sleep(60) / time.sleep(15)
Sleep(extra) ==
    /\ at = "sleep"
    /\ now' = now + SleepOf(Op) + extra
    /\ at' = "head"
    /\ UNCHANGED <<cell, error, nb, lists, it_index, item, status, response, max_time,
                   out, svc, store, rounds, lastStatus, calls, run, roundStart, described>>

\* a describe call of a wait raises: the loop variable is assigned, the response
\* and the status are not
DescribeRaises ==
    /\ at = "body"
    /\ IF Op \in MultiWaits
       THEN /\ it_index >= 0
            /\ it_index < Len(lists[ListOf(Op)])
            /\ item' = lists[ListOf(Op)][it_index + 1]
            /\ it_index' = it_index - 1
       ELSE /\ Op \in SingleWaits
            /\ UNCHANGED <<item, it_index>>
    /\ Abort(ApiError)
    /\ UNCHANGED <<nb, lists, status, response, now, max_time, out, svc, store, rounds,
                   lastStatus, calls, run, roundStart, described>>

----------------------------------------------------------------------------

Next ==
    \/ \E k \in Roles : CreateSchema(k)
    \/ CreateDatasetGroup
    \/ \E k \in Roles : CreateDataset(k)
    \/ CreateBucket
    \/ Upload
    \/ PutBucketPolicy
    \/ CreateRole
    \/ \E k \in Roles : CreateImportJob(k)
    \/ Store1
    \/ Restore
    \/ \E r \in Recipes : CreateSolution(r)
    \/ \E r \in Recipes : CreateSolutionVersion(r)
    \/ \E r \in Recipes : GetSolutionMetrics(r)
    \/ \E r \in Recipes : CreateCampaign(r)
    \/ CreateFilter
    \/ Store2
    \/ WaitStart
    \/ WhileHead
    \/ \E s \in Statuses : \E r \in ReasonsOf(s) : \E d \in Latencies : ForBody(s, r, d)
    \/ ForDone
    \/ \E s \in Statuses : \E r \in ReasonsOf(s) : \E d \in Latencies : SingleBody(s, r, d)
    \/ \E e \in Overruns : Sleep(e)
    \/ \E first \in {1, FirstCell2} : Rerun(first)
    \/ CallRaises
    \/ \E k \in Roles : ListSchemasRaises(k)
    \/ \E c \in {"get_role", "attach_role_policy"} : RoleCallRaises(c)
    \/ \E n \in {2, 3} : UploadRaises(n)
    \/ DescribeRaises

Spec == Init /\ [][Next]_vars

\* The kernel keeps executing the script: a cell that can take a step takes one.
FairSpec == Spec /\ WF_vars(Next)

----------------------------------------------------------------------------
(* Vocabulary of the properties *)

\* the wait `op` is being executed
InWait(op) == Op = op /\ at \in {"head", "body", "sleep"}

\* the wait `op` has just been left and the next cell has not run yet
JustLeft(op) ==
    /\ cell - 1 \in DOMAIN Cells
    /\ Cells[cell - 1].op = op
    /\ at \in {"start", "done"}

\* the wait `op` is running or has just been left
Around(op) == InWait(op) \/ JustLeft(op)

Elems(l) == {l[i] : i \in DOMAIN l}

\* the messages of kind m that out holds about arn
Count(m, arn) == Cardinality({i \in DOMAIN out : out[i].msg = m /\ out[i].arn = arn})

\* the outcome messages (success or failure) out holds about arn
OutcomeCount(arn) == Count("successfully completed", arn) + Count("failed", arn)

\* a step of the for loop body: one identifier described and handled
ForBodyStep == at = "body" /\ at' = "body" /\ Op \in MultiWaits /\ it_index' = it_index - 1

----------------------------------------------------------------------------
(* C1: a multi-resource wait (import jobs, solution versions, campaigns) is *)
(* left only when every identifier of its initial list has been read with a *)
(* terminal status and the pending list is empty, or when the maximum wait  *)
(* has elapsed; once every identifier has been read with a terminal status  *)
(* the pending list is empty; and a wait that has started is eventually     *)
(* left (or stopped by an error of a describe call).                        *)
C1_ExitState ==
    \A op \in MultiWaits :
        /\ JustLeft(op) =>
              \/ /\ lists[ListOf(op)] = <<>>
                 /\ \A a \in Elems(InitialList(op)) : lastStatus[a] \in Terminal
              \/ now >= max_time
        /\ (Around(op) /\ at # "body" /\ \A a \in Elems(InitialList(op)) : lastStatus[a] \in Terminal)
              => lists[ListOf(op)] = <<>>

C1_BlockedUntilTerminalOrDeadline ==
    /\ []C1_ExitState
    /\ \A op \in MultiWaits : InWait(op) ~> (JustLeft(op) \/ at = "aborted")

\* a wait left before its deadline, in its second or a later round, with every
\* identifier read terminal
C1_Witness ==
    /\ JustLeft("wait_import_jobs")
    /\ rounds >= 2
    /\ now < max_time
    /\ lists["import_job_arns"] = <<>>
    /\ \E a \in Elems(InitialList("wait_import_jobs")) : lastStatus[a] = CREATE_FAILED

----------------------------------------------------------------------------
(* Creation calls as the kernel issued them *)

\* the creation calls whose first argument is the identifier of an asynchronous entity
TakesAsyncArn ==
    {"create_dataset", "create_solution", "create_filter", "create_solution_version",
     "create_campaign"}

\* the creation calls that take the dataset group
TakesDatasetGroup == {"create_dataset", "create_solution", "create_filter"}

\* the schema cell of role k has been executed to its end by this kernel
SchemaStepDone(k) ==
    /\ \E i \in DOMAIN calls :
           calls[i].op = "create_schema" /\ calls[i].name = SchemaCreateName(k)
    /\ ~(at = "aborted" /\ Op = "create_schema" /\ Key = k)

\* ... and create_schema answered that the schema already exists
SchemaStepRecovered(k) ==
    /\ SchemaStepDone(k)
    /\ \E i \in DOMAIN calls :
           /\ calls[i].op = "create_schema"
           /\ calls[i].name = SchemaCreateName(k)
           /\ calls[i].result = 0

(* C2: when the schema step of Interactions, Items or Users is executed a   *)
(* second time against the same account, create_schema signals that the     *)
(* schema exists and the list_schemas path leaves the schema variable bound *)
(* to the identifier the first execution obtained, which is the ARN of the  *)
(* schema created under the name the cell passes to create_schema.          *)
C2_SchemaCreationIdempotent ==
    \A k \in Roles :
        /\ (run = 1 /\ SchemaStepDone(k)) =>
               /\ ~SchemaStepRecovered(k)
               /\ nb[SchemaVar(k)] = Lookup("schema", SchemaCreateName(k))
        /\ (run > 1 /\ SchemaStepDone(k)) =>
               /\ SchemaStepRecovered(k)
               /\ nb[SchemaVar(k)] # 0
               /\ nb[SchemaVar(k)] = Lookup("schema", SchemaCreateName(k))

HandledCreations == {"create_schema", "create_role"}

C3_RoleRecovered ==
    /\ run = 1
    /\ \E i \in DOMAIN calls : calls[i].op = "get_role" /\ calls[i].result = nb["role_arn"]

(* C4: whenever a creation call takes the identifier of an asynchronous     *)
(* entity (dataset group, solution, solution version) as its argument, a    *)
(* describe of that identifier has returned ACTIVE or CREATE FAILED before. *)
C4_PollBeforeUse ==
    \A i \in DOMAIN calls :
        calls[i].op \in TakesAsyncArn => calls[i].seen[1] \in Terminal

(* C5: when create_dataset, create_solution or create_filter is issued, the *)
(* most recent status read of the dataset group returned ACTIVE.            *)
C5_DatasetGroupActiveBeforeUse ==
    \A i \in DOMAIN calls :
        calls[i].op \in TakesDatasetGroup => calls[i].seen[1] = ACTIVE

----------------------------------------------------------------------------
\* the for loop of the running round has no identifier left to yield
Exhausted(op) == ~(it_index >= 0 /\ it_index < Len(lists[ListOf(op)]))

(* C6: in a multi-resource wait an identifier read with CREATE FAILED has   *)
(* one failure message naming it and no success message, is out of the      *)
(* pending list, and no exception stops the flow; the read that returns     *)
(* CREATE FAILED shortens the list by exactly that one entry; and no        *)
(* identifier is described again after a terminal read.                     *)
C6_FailedState ==
    \A op \in MultiWaits :
        Around(op) =>
            \A a \in Elems(InitialList(op)) :
                lastStatus[a] = CREATE_FAILED =>
                    /\ Count("failed", a) = 1
                    /\ Count("successfully completed", a) = 0
                    /\ a \notin Elems(lists[ListOf(op)])
                    /\ error = ""

C6_FailedStep ==
    ForBodyStep =>
        /\ lastStatus[item'] \notin Terminal
        /\ status' = CREATE_FAILED =>
               /\ Len(lists'[ListOf(Op)]) = Len(lists[ListOf(Op)]) - 1
               /\ Elems(lists'[ListOf(Op)]) = Elems(lists[ListOf(Op)]) \ {item'}
               /\ at' # "aborted"

C7_ReasonLogged ==
    \A op \in MultiWaits :
        (InWait(op) /\ ResourceKey(op) \in DOMAIN response
           /\ response[ResourceKey(op)].status = CREATE_FAILED) =>
            /\ Count("failed", item) = 1
            /\ Truthy(response[ResourceKey(op)].failureReason) =>
                   \E i \in DOMAIN out :
                       /\ out[i].msg = "Reason"
                       /\ out[i].arn = item
                       /\ out[i].text = response[ResourceKey(op)].failureReason
            /\ ~Truthy(response[ResourceKey(op)].failureReason) => Count("Reason", item) = 0

\* a wait has been left with something still pending
TimedOut(op) ==
    /\ JustLeft(op)
    /\ IF op \in MultiWaits THEN lists[ListOf(op)] # <<>> ELSE status \notin Terminal

\* what a wait prints in its normal course
NormalMessages ==
    {"successfully completed", "failed", "Reason", "still in progress", "All have ended", "status"}

(* C8: when the maximum wait has elapsed with something still pending, the  *)
(* wait is left without an exception and without a message about it: the    *)
(* step from the loop head is the plain move to the next cell, the pending   *)
(* identifiers stay in the list with no outcome message, and nothing but     *)
(* the messages of a normal round has been printed.                          *)
C8_TimedOutState ==
    \A op \in MultiWaits \cup SingleWaits :
        TimedOut(op) =>
            /\ error = ""
            /\ now >= max_time
            /\ \A i \in DOMAIN out : out[i].msg \in NormalMessages
            /\ op \in MultiWaits =>
                   /\ \A a \in Elems(lists[ListOf(op)]) : OutcomeCount(a) = 0
                   /\ out[Len(out)].msg = "still in progress"
            /\ op \in SingleWaits => out[Len(out)] = Msg("status", SingleArn(op), status)

C8_DeadlineStep ==
    (at = "head" /\ ~(now < max_time)) =>
        /\ cell' = cell + 1
        /\ at' \in {"start", "done"}
        /\ error' = ""
        /\ out' = out
        /\ lists' = lists
        /\ status' = status

C8_TimeoutIsSilent == []C8_TimedOutState /\ [][C8_DeadlineStep]_vars

\* the campaign wait left at its deadline with a campaign still pending
C8_Witness ==
    /\ TimedOut("wait_campaigns")
    /\ now >= max_time
    /\ Cells[cell].op = "create_filter"

(* C9: a multi-resource wait never sleeps once every identifier has been    *)
(* read terminal: the round in which the last one is read ends with the     *)
(* exit, the clock untouched; on that exit every identifier of the initial  *)
(* list has exactly one outcome message, and the rounds run are one more    *)
(* than the sleeps announced, so a wait whose first round reads every       *)
(* identifier terminal runs exactly one round.                              *)
C9_ExitState ==
    \A op \in MultiWaits :
        /\ (InWait(op) /\ at = "sleep") =>
               \E a \in Elems(InitialList(op)) : lastStatus[a] \notin Terminal
        /\ (JustLeft(op) /\ \A a \in Elems(InitialList(op)) : lastStatus[a] \in Terminal) =>
               /\ \A a \in Elems(InitialList(op)) : OutcomeCount(a) = 1
               /\ rounds = 1 + Count("still in progress", 0)
               /\ out[Len(out)].msg = "All have ended"

C9_LastRoundStep ==
    (at = "body" /\ Op \in MultiWaits /\ Exhausted(Op)
       /\ \A a \in Elems(InitialList(Op)) : lastStatus[a] \in Terminal) =>
        /\ cell' = cell + 1
        /\ now' = now
        /\ rounds' = rounds

C9_ExitsInTheSameRound == []C9_ExitState /\ [][C9_LastRoundStep]_vars

\* the scenario of the specification: two import jobs ACTIVE and one CREATE
\* FAILED on the first poll, and the wait left after one round
C9_Witness ==
    /\ JustLeft("wait_import_jobs")
    /\ rounds = 1
    /\ lists["import_job_arns"] = <<>>
    /\ lastStatus[nb[ImportJobVar("items")]] = ACTIVE
    /\ lastStatus[nb[ImportJobVar("users")]] = ACTIVE
    /\ lastStatus[nb[ImportJobVar("interactions")]] = CREATE_FAILED

(* C10, as stated: every wait sets its deadline 3 hours after its start.    *)
C10_AllThreeHours ==
    \A op \in MultiWaits \cup SingleWaits :
        (InWait(op) /\ rounds = 0) => max_time = now + 3 * 60 * 60

(* C10, amended: every wait sets a deadline once, at its start: 3 hours     *)
(* later for the dataset group, the import jobs, the solution versions and  *)
(* the campaigns, 1 hour later for the filter; the deadline does not move   *)
(* during the wait and no round begins once it has passed.                  *)
C10_DeadlineStep ==
    /\ (at = "start" /\ at' = "head") =>
           max_time' = now' + (IF Op = "wait_filter" THEN 60 * 60 ELSE 3 * 60 * 60)
    /\ (at \in {"head", "body", "sleep"} /\ cell' = cell) => max_time' = max_time
    /\ rounds' = rounds + 1 => now < max_time

C10_FixedDeadlines == [][C10_DeadlineStep]_vars

\* the filter wait left at its deadline of one hour, the filter not terminal
C10_Witness ==
    /\ TimedOut("wait_filter")
    /\ max_time = 60 * 60
    /\ now >= max_time

----------------------------------------------------------------------------
(* C11: the sleep between two rounds of a wait is the same in every round:  *)
(* 15 seconds asked for in the single-resource waits (dataset group,        *)
(* filter) and 60 in the multi-resource ones, whatever the number of rounds *)
(* run and of identifiers left; the clock moves by that much (and by what   *)
(* the sleep overran), a round is followed by one sleep, and a new round    *)
(* starts only after it.                                                    *)
C11_SleepStep ==
    /\ (at = "sleep" /\ at' = "head") =>
           /\ cell' = cell
           /\ \E e \in {0, Stall} :
                  now' = now + (IF Op \in SingleWaits THEN 15 ELSE 60) + e
    /\ (at = "sleep" /\ at' # "sleep") => at' = "head"
    /\ (at' = "head" /\ at # "head") => at \in {"start", "sleep"}
    /\ (at' = "sleep" /\ at # "sleep") => (at = "body" /\ cell' = cell)
    /\ (at = "body" /\ at' \notin {"body", "aborted"} /\ cell' = cell) => at' = "sleep"
    /\ (at = "head" /\ at' = "body") => now' = now

C11_FixedCadence == [][C11_SleepStep]_vars

\* the campaign wait about to start its third round, after a sleep of 60 seconds
\* with two campaigns left and one of 60 seconds and an overrun with one left
C11_Witness ==
    /\ InWait("wait_campaigns")
    /\ at = "head"
    /\ rounds = 2
    /\ now = 60 + 60 + Stall
    /\ Len(lists["campaign_arns"]) = 1

----------------------------------------------------------------------------
\* the creation call of the resources a multi-resource wait polls
GroupCreate(op) ==
    CASE op = "wait_import_jobs" -> "create_dataset_import_job"
      [] op = "wait_solution_versions" -> "create_solution_version"
      [] op = "wait_campaigns" -> "create_campaign"

\* the step issues the call `op`
Issues(op) == Len(calls') > Len(calls) /\ calls'[Len(calls')].op = op

(* C12: for the import jobs, the solution versions and the campaigns alike, *)
(* once one resource of the group has been described all three creation     *)
(* calls of the group have returned their identifiers, and when a creation  *)
(* call of the group is issued no resource of the group has been described. *)
C12_GroupState ==
    \A op \in MultiWaits :
        (\E a \in Elems(InitialList(op)) : lastStatus[a] # None) =>
            \A a \in Elems(InitialList(op)) :
                /\ a # 0
                /\ \E i \in DOMAIN calls : calls[i].op = GroupCreate(op) /\ calls[i].result = a

C12_GroupStep ==
    \A op \in MultiWaits :
        Issues(GroupCreate(op)) => \A a \in Elems(InitialList(op)) : lastStatus[a] = None

C12_SubmitAllThenWait == []C12_GroupState /\ [][C12_GroupStep]_vars

\* the first describe call on a solution version, the three versions submitted
C12_Witness ==
    /\ InWait("wait_solution_versions")
    /\ rounds = 1
    /\ Len(described) = 1
    /\ \A a \in Elems(InitialList("wait_solution_versions")) : a # 0

----------------------------------------------------------------------------
\* the exceptions a service call raises
Raised == {"ResourceAlreadyExistsException", "BucketAlreadyOwnedByYou", ApiError}

\* the index in Cells of the cell (op, key)
CellOf(op, key) == CHOOSE c \in DOMAIN Cells : Cells[c] = Cell(op, key)

\* this kernel has run the cell (op, key) to its end
Past(op, key) ==
    /\ cell > CellOf(op, key)
    /\ CellOf(op, key) < FirstCell2 => cell < FirstCell2

(* C13: a CREATE FAILED read never stops the flow.  The step that reads it, *)
(* in any wait, raises nothing; the flow is stopped only by an exception a  *)
(* service call raises; the cells are executed one after the other, none    *)
(* skipped; and the creation calls that take the identifier of a resource   *)
(* read CREATE FAILED are issued with it as for an ACTIVE one (create_dataset *)
(* with the dataset group, create_campaign with the solution version).      *)
C13_FailedState ==
    /\ at = "aborted" => error \in Raised
    /\ \A k \in Roles :
           Past("create_dataset", k) =>
               \E i \in DOMAIN calls :
                   /\ calls[i].op = "create_dataset"
                   /\ calls[i].name = DatasetName(k)
                   /\ calls[i].args[1] = nb["dataset_group_arn"]
                   /\ calls[i].seen[1] = lastStatus[nb["dataset_group_arn"]]
    /\ \A r \in Recipes :
           Past("create_campaign", r) =>
               \E i \in DOMAIN calls :
                   /\ calls[i].op = "create_campaign"
                   /\ calls[i].name = SolutionName(r)
                   /\ calls[i].args[1] = nb[SolutionVersionVar(r)]
                   /\ calls[i].seen[1] = lastStatus[nb[SolutionVersionVar(r)]]

C13_FailedReadStep ==
    /\ (lastStatus' # lastStatus /\ run' = run /\ status' = CREATE_FAILED) =>
           /\ at' # "aborted"
           /\ error' = ""
           /\ Op \in SingleWaits => (cell' = cell + 1 /\ at' \in {"start", "done"})
    /\ run' = run => cell' \in {cell, cell + 1}

C13_FailureNeverEscalated == []C13_FailedState /\ [][C13_FailedReadStep]_vars

\* the second notebook run to its end, a campaign created for a solution
\* version that was read CREATE FAILED
C13_Witness ==
    /\ at = "done"
    /\ store["filter_arn"] # 0
    /\ \E i \in DOMAIN calls :
           /\ calls[i].op = "create_campaign"
           /\ calls[i].seen[1] = CREATE_FAILED
           /\ calls[i].result # 0

----------------------------------------------------------------------------
(* C14: an error of a service call other than the two handled ones stops    *)
(* the flow at that call.  The step that raises it stays in the cell and    *)
(* binds no variable (role_arn alone may have been bound in the same cell   *)
(* by the create_role or get_role call that came before the failing         *)
(* attach_role_policy); the error is never swallowed; and a stopped kernel  *)
(* makes no further call, describes nothing and stores nothing.             *)
C14_StoppedState == (error # "") <=> (at = "aborted")

C14_RaiseStep ==
    /\ (at # "aborted" /\ at' = "aborted" /\ error' = ApiError) =>
           /\ cell' = cell
           /\ store' = store
           /\ lastStatus' = lastStatus
           /\ \A v \in VarNames :
                  nb'[v] # nb[v] =>
                      /\ v = "role_arn"
                      /\ Op = "create_role"
                      /\ \E i \in DOMAIN calls' :
                             /\ i > Len(calls)
                             /\ calls'[i].op \in {"create_role", "get_role"}
                             /\ calls'[i].result = nb'[v]
           /\ \A i \in DOMAIN calls' : i > Len(calls) => calls'[i].op \notin
                  {"create_dataset_group", "create_dataset", "create_dataset_import_job",
                   "create_solution", "create_solution_version", "create_campaign",
                   "create_filter", "get_solution_metrics", "attach_role_policy"}
    /\ (at = "aborted" /\ run' = run) => UNCHANGED vars

C14_OtherErrorsPropagate == []C14_StoppedState /\ [][C14_RaiseStep]_vars

\* the import-job wait stopped by a describe call in its second round
C14_Witness ==
    /\ at = "aborted"
    /\ error = ApiError
    /\ Op = "wait_import_jobs"
    /\ rounds = 2
    /\ Len(described) = 1

----------------------------------------------------------------------------
(* C15: when a create_dataset_import_job call is issued, this kernel has    *)
(* before it (a) created the dataset the call targets, (b) uploaded the     *)
(* file the call points at, (c) put the bucket policy, and (d) created or   *)
(* recovered the role the call passes and then attached the read-only       *)
(* policy to it; and the import-job wait runs only with the three import    *)
(* jobs submitted.                                                          *)
C15_ImportJobsLast ==
    /\ \A k \in Roles : \A i \in DOMAIN calls :
           (calls[i].op = "create_dataset_import_job" /\ calls[i].name = ImportJobName(k)) =>
               /\ \E j \in 1..(i - 1) :
                      /\ calls[j].op = "create_dataset"
                      /\ calls[j].name = DatasetName(k)
                      /\ calls[j].result # 0
                      /\ calls[j].result = calls[i].args[1]
               /\ calls[i].data = Filename(k)
               /\ \E j \in 1..(i - 1) :
                      calls[j].op = "upload_file" /\ calls[j].data = Filename(k)
               /\ \E j \in 1..(i - 1) : calls[j].op = "put_bucket_policy"
               /\ \E j \in 1..(i - 1) :
                      /\ calls[j].op \in {"create_role", "get_role"}
                      /\ calls[j].result # 0
                      /\ calls[j].result = calls[i].args[2]
                      /\ \E h \in (j + 1)..(i - 1) :
                             /\ calls[h].op = "attach_role_policy"
                             /\ calls[h].name = RoleName
                             /\ calls[h].data = PolicyArn
    /\ InWait("wait_import_jobs") =>
           \A k \in Roles :
               \E i \in DOMAIN calls :
                   /\ calls[i].op = "create_dataset_import_job"
                   /\ calls[i].name = ImportJobName(k)
                   /\ calls[i].result # 0
                   /\ calls[i].result = nb[ImportJobVar(k)]

\* the import-job wait running, the role of the three jobs one that get_role
\* recovered
C15_Witness ==
    /\ InWait("wait_import_jobs")
    /\ \E j \in DOMAIN calls : calls[j].op = "get_role" /\ calls[j].result = nb["role_arn"]
    /\ \A k \in Roles :
           \E i \in DOMAIN calls :
               calls[i].op = "create_dataset_import_job" /\ calls[i].args[2] = nb["role_arn"]

----------------------------------------------------------------------------
\* the multi-resource wait `op` has run and ended: every identifier of its list
\* was described, and the list was emptied or the deadline passed; no wait has
\* started since
ExitedMulti(op) ==
    /\ cell > CellOf(op, "")
    /\ at = "start"
    /\ \A a \in Elems(InitialList(op)) : a # 0 /\ lastStatus[a] # None
    /\ lists[ListOf(op)] = <<>> \/ now >= max_time

\* the same of a single-resource wait
ExitedSingle(op) ==
    /\ cell > CellOf(op, "")
    /\ at = "start"
    /\ SingleArn(op) # 0
    /\ lastStatus[SingleArn(op)] = status
    /\ status \in Terminal \/ now >= max_time

(* C16: in the second notebook get_solution_metrics and create_campaign are *)
(* called only once the solution-version wait has ended, create_filter only *)
(* once the campaign wait has ended, and the identifiers are stored only    *)
(* once the filter wait has ended.                                          *)
C16_OrderStep ==
    /\ (Issues("get_solution_metrics") \/ Issues("create_campaign")) =>
           ExitedMulti("wait_solution_versions")
    /\ Issues("create_filter") => ExitedMulti("wait_campaigns")
    /\ store' # store => Op \in {"store1", "store2"}
    /\ (Op = "store2" /\ cell' # cell) => ExitedSingle("wait_filter")

C16_StageTwoOrder == [][C16_OrderStep]_vars

\* the identifiers stored after a filter wait that ended at its deadline, the
\* filter created after a campaign wait that ended at its own
C16_Witness ==
    /\ at = "done"
    /\ store["filter_arn"] # 0
    /\ lastStatus[nb["filter_arn"]] = CREATE_IN_PROGRESS
    /\ lists["campaign_arns"] # <<>>

----------------------------------------------------------------------------
\* the calls of this kernel that match (op, name)
CallsOf(op, name) == {i \in DOMAIN calls : calls[i].op = op /\ calls[i].name = name}

(* C17: each dataset is created by one call, with the ARN create_dataset_group *)
(* returned, its own dataset type and the ARN of the schema created for the *)
(* same role; the account holds one dataset of each name; and each import   *)
(* job is created with the ARN of the dataset and the file of its role.     *)
C17_DatasetBinding ==
    \A k \in Roles :
        /\ Cardinality(CallsOf("create_dataset", DatasetName(k))) <= 1
        /\ Cardinality({i \in DOMAIN svc :
                           svc[i].kind = "dataset" /\ svc[i].name = DatasetName(k)}) <= 1
        /\ Past("create_dataset", k) =>
               Cardinality(CallsOf("create_dataset", DatasetName(k))) = 1
        /\ \A i \in CallsOf("create_dataset", DatasetName(k)) :
               /\ calls[i].data = DatasetType(k)
               /\ calls[i].args[1] # 0
               /\ \E j \in 1..(i - 1) :
                      calls[j].op = "create_dataset_group" /\ calls[j].result = calls[i].args[1]
               /\ calls[i].args[2] # 0
               /\ calls[i].args[2] = Lookup("schema", SchemaCreateName(k))
               /\ calls[i].args[2] = nb[SchemaVar(k)]
        /\ \A i \in CallsOf("create_dataset_import_job", ImportJobName(k)) :
               /\ calls[i].data = Filename(k)
               /\ calls[i].args[1] # 0
               /\ calls[i].args[1] = Lookup("dataset", DatasetName(k))
               /\ calls[i].args[1] = nb[DatasetVar(k)]

\* the three datasets and the import job of Users created
C17_Witness ==
    /\ \A k \in Roles : Past("create_dataset", k)
    /\ \E i \in CallsOf("create_dataset_import_job", ImportJobName("users")) :
           calls[i].result # 0 /\ calls[i].args[1] = nb["users_dataset_arn"]

----------------------------------------------------------------------------
\* the kernel is executing the second notebook, %store -r done
InStage2 == cell > FirstCell2

(* C18: the one variable the second notebook reads without assigning it,    *)
(* dataset_group_arn (in create_solution and create_filter), is among those *)
(* the first notebook stores; after %store -r every stored variable holds   *)
(* the stored value, which for dataset_group_arn is the ARN of the dataset  *)
(* group the first notebook created; and no call of the second notebook is  *)
(* passed an unbound variable.                                              *)
C18_HandOff ==
    InStage2 =>
           /\ "dataset_group_arn" \in Stored1
           /\ \A v \in Stored1 : nb[v] = store[v]
           /\ \A v \in Stage1Vars \ Stored1 : nb[v] = 0
           /\ nb["dataset_group_arn"] # 0
           /\ nb["dataset_group_arn"] = Lookup("datasetGroup", DatasetGroupName)
           /\ \A i \in DOMAIN calls :
                  /\ \A a \in DOMAIN calls[i].args : calls[i].args[a] # 0
                  /\ calls[i].op \in {"create_solution", "create_filter"} =>
                         calls[i].args = <<nb["dataset_group_arn"]>>

\* the filter created with the dataset group %store -r restored
C18_Witness ==
    /\ InWait("wait_filter")
    /\ \E i \in DOMAIN calls :
           /\ calls[i].op = "create_filter"
           /\ calls[i].result # 0
           /\ calls[i].args[1] = store["dataset_group_arn"]

----------------------------------------------------------------------------
\* the creation calls of asynchronous resources
AsyncCreations ==
    {"create_dataset_group", "create_dataset", "create_dataset_import_job",
     "create_solution_version", "create_campaign", "create_filter"}

(* C19: within one execution no creation call is issued twice for the same  *)
(* resource (the same name; for create_solution_version the same solution), *)
(* whatever was read of the resource afterwards; a creation call is issued  *)
(* only by the cell of that call, never from inside a wait; and when it is  *)
(* issued nothing has been read yet of the resource it names.               *)
C19_OncePerResource ==
    \A i, j \in DOMAIN calls :
        (i # j /\ calls[i].op = calls[j].op /\ calls[i].op \in AsyncCreations) =>
            /\ <<calls[i].name, calls[i].args>> # <<calls[j].name, calls[j].args>>
            /\ calls[i].result # calls[j].result

C19_IssueStep ==
    \A op \in AsyncCreations :
        Issues(op) =>
            /\ at = "start"
            /\ Op = op
            /\ Len(calls') = Len(calls) + 1
            /\ lastStatus[calls'[Len(calls')].result] = None \/ calls'[Len(calls')].result = 0

C19_NoRetry == []C19_OncePerResource /\ [][C19_IssueStep]_vars

\* the second notebook run to its end although a solution version was read
\* CREATE FAILED and a campaign was still in progress when its wait timed out
C19_Witness ==
    /\ at = "done"
    /\ lastStatus[nb["related_solution_version_arn"]] = CREATE_FAILED
    /\ lastStatus[nb["ranking_campaign_arn"]] = CREATE_IN_PROGRESS
    /\ Cardinality({i \in DOMAIN calls : calls[i].op = "create_solution_version"}) = 3
    /\ Cardinality({i \in DOMAIN calls : calls[i].op = "create_campaign"}) = 3

----------------------------------------------------------------------------
\* the ARNs of a list are pairwise distinct
Distinct(l) == \A i, j \in DOMAIN l : i # j => l[i] # l[j]

\* the resource was described in the running round and found terminal
RemovedInRound(a) == a \in Elems(described) /\ lastStatus[a] \in Terminal

\* l without the elements removed in the running round
StillPending(l) ==
    LET keep(a) == ~RemovedInRound(a)
    IN  SelectSeq(l, keep)

(* C20: in every round of a multi-resource wait the identifiers that were   *)
(* pending when the round began are described in reverse list order, each   *)
(* once, whatever is removed on the way: after m describe calls the ones    *)
(* described are the last m of the list of the round's start, last first,   *)
(* the list holds what the round started with less the ones found terminal, *)
(* and the for loop ends only when all have been described.                 *)
C20_RoundState ==
    (at = "body" /\ Op \in MultiWaits) =>
        LET n == Len(roundStart)
            m == Len(described)
        IN  /\ Distinct(roundStart)
            /\ m <= n
            /\ \A i \in 1..m : described[i] = roundStart[n + 1 - i]
            /\ it_index = n - 1 - m
            /\ lists[ListOf(Op)] = StillPending(roundStart)
            /\ \A i \in 1..(n - m) : lists[ListOf(Op)][i] = roundStart[i]
            /\ Exhausted(Op) => m = n

C20_RoundStep ==
    ForBodyStep =>
        /\ item' = roundStart[Len(roundStart) - Len(described)]
        /\ described' = Append(described, item')
        /\ item' \notin Elems(described)

C20_RoundRobinComplete == []C20_RoundState /\ [][C20_RoundStep]_vars

\* a round that began with three identifiers ends with the middle one alone:
\* the last and the first were removed on the way
C20_Witness ==
    /\ at = "body"
    /\ Op = "wait_campaigns"
    /\ Len(roundStart) = 3
    /\ Len(described) = 3
    /\ lists["campaign_arns"] = <<roundStart[2]>>

----------------------------------------------------------------------------
(* C21: solutions, solution versions and campaigns are paired by name *)

\* the ARNs create_solution returned in this kernel for the solution of recipe r
SolutionsOf(r) ==
    {calls[i].result : i \in CallsOf("create_solution", SolutionName(r))} \ {0}

\* the ARNs create_solution_version returned for a solution of recipe r
VersionsOf(r) ==
    {calls[i].result : i \in {j \in DOMAIN calls :
                                 /\ calls[j].op = "create_solution_version"
                                 /\ calls[j].args[1] \in SolutionsOf(r)}} \ {0}

\* C21: every create_solution call passes the dataset group ARN of stage 1 and
\* the recipe ARN of its own name, every create_solution_version call passes
\* the ARN create_solution returned for one of the three names, and every
\* create_campaign call wraps a version of the solution of its own name with
\* minProvisionedTPS = 1; so no version or campaign sits on another recipe.
C21_PairedByName ==
    \A i \in DOMAIN calls :
        /\ calls[i].op = "create_solution" =>
              \E r \in Recipes :
                  /\ calls[i].name = SolutionName(r)
                  /\ calls[i].data = RecipeArn(r)
                  /\ calls[i].args = <<store["dataset_group_arn"]>>
                  /\ \A q \in Recipes \ {r} : calls[i].data # RecipeArn(q)
        /\ calls[i].op = "create_solution_version" =>
              /\ \E r \in Recipes : calls[i].args[1] \in SolutionsOf(r)
              /\ Len(calls[i].args) = 1
              /\ \A j \in 1..(i - 1) :
                     calls[j].op = "create_solution_version" =>
                         calls[j].args[1] # calls[i].args[1]
        /\ calls[i].op = "create_campaign" =>
              \E r \in Recipes :
                  /\ calls[i].name = SolutionName(r)
                  /\ calls[i].args[1] \in VersionsOf(r)
                  /\ Len(calls[i].args) = 1
                  /\ calls[i].data = "minProvisionedTPS = 1"
                  /\ \A q \in Recipes \ {r} : calls[i].args[1] \notin VersionsOf(q)

\* the three campaigns have been created, the last one on the ranking version
C21_Witness ==
    /\ \A r \in Recipes :
          \E i \in CallsOf("create_campaign", SolutionName(r)) : calls[i].result # 0
    /\ \E i \in CallsOf("create_campaign", SolutionName("ranking")) :
          calls[i].args[1] \in VersionsOf("ranking")

----------------------------------------------------------------------------
(* C22: the last cell of notebook 2 stores what this run created *)

\* the value the creation call of variable v returned in this kernel
CreatedFor(v) ==
    {calls[i].result : i \in {j \in DOMAIN calls :
        \/ \E r \in Recipes : /\ v = SolutionVar(r)
                               /\ calls[j].op = "create_solution"
                               /\ calls[j].name = SolutionName(r)
        \/ \E r \in Recipes : /\ v = SolutionVersionVar(r)
                               /\ calls[j].op = "create_solution_version"
                               /\ calls[j].args[1] \in SolutionsOf(r)
        \/ \E r \in Recipes : /\ v = CampaignVar(r)
                               /\ calls[j].op = "create_campaign"
                               /\ calls[j].name = SolutionName(r)
        \/ /\ v = "filter_arn"
           /\ calls[j].op = "create_filter"
           /\ calls[j].name = FilterName}} \ {0}

C22_AtStore ==
    At("store2", "") =>
        \A v \in Stage2Vars : CreatedFor(v) = {nb[v]}

C22_StoreStep ==
    (Op = "store2" /\ at = "start" /\ cell' # cell) =>
        /\ \A v \in Stage2Vars : store'[v] = nb[v] /\ CreatedFor(v) = {store'[v]}
        /\ \A v \in VarNames \ Stage2Vars : store'[v] = store[v]
        /\ nb' = nb

\* C22: when the %store cell of notebook 2 is up, each of its ten variables
\* holds the value its own creation call returned in this kernel, and the
\* cell writes each of the ten to the store.
C22_PersistsWhatItCreated == [](C22_AtStore) /\ [][C22_StoreStep]_vars

\* the %store cell has run and the store holds the ten ARNs of this run
C22_Witness ==
    /\ at = "done"
    /\ Cardinality({store[v] : v \in Stage2Vars}) = 10
    /\ \A v \in Stage2Vars : CreatedFor(v) = {store[v]}

----------------------------------------------------------------------------
(* C23: the pending list of a multi-resource wait only shrinks *)

\* s is t with some elements left out, the others in the order of t
IsSubList(s, t) ==
    \E f \in [DOMAIN s -> DOMAIN t] :
        /\ \A i \in DOMAIN s : s[i] = t[f[i]]
        /\ \A i, j \in DOMAIN s : i < j => f[i] < f[j]

C23_PendingState ==
    \A op \in MultiWaits :
        (Around(op) \/ (Op = op /\ at = "aborted")) =>
            /\ IsSubList(lists[ListOf(op)], InitialList(op))
            /\ \A a \in Elems(InitialList(op)) \ Elems(lists[ListOf(op)]) :
                   lastStatus[a] \in {ACTIVE, CREATE_FAILED}

C23_PendingStep ==
    \A op \in MultiWaits :
        LET l == ListOf(op) IN
        /\ lists'[l] # lists[l] =>
              \/ Op = op /\ at = "start" /\ at' = "head" /\ lists'[l] = InitialList(op)
              \/ at' = "start" /\ lists'[l] = <<>> /\ calls' = <<>>
              \/ /\ Op = op
                 /\ ForBodyStep
                 /\ status' \in {ACTIVE, CREATE_FAILED}
                 /\ lastStatus'[item'] = status'
                 /\ Len(lists'[l]) = Len(lists[l]) - 1
                 /\ Elems(lists'[l]) = Elems(lists[l]) \ {item'}
                 /\ IsSubList(lists'[l], lists[l])
        /\ (Op = op /\ ForBodyStep /\ status' \notin {ACTIVE, CREATE_FAILED}) =>
              /\ lists'[l] = lists[l]
              /\ item' \in Elems(lists'[l])

\* C23: during a multi-resource wait the pending list is a sub-list of the
\* list the wait started from; within the wait it changes only by losing the
\* identifier just read, and only when that read returned exactly ACTIVE or
\* CREATE FAILED; a read of any other status leaves the identifier pending.
C23_PendingOnlyShrinks == []C23_PendingState /\ [][C23_PendingStep]_vars

\* the middle identifier has gone from the list of the import jobs; the two
\* around it, read still in progress, are pending in their initial order
C23_Witness ==
    /\ InWait("wait_import_jobs")
    /\ lists["import_job_arns"] = << nb[ImportJobVar("items")], nb[ImportJobVar("interactions")] >>
    /\ lastStatus[nb[ImportJobVar("items")]] = CREATE_IN_PROGRESS
    /\ lastStatus[nb[ImportJobVar("interactions")]] = CREATE_IN_PROGRESS
    /\ lastStatus[nb[ImportJobVar("users")]] \in Terminal

----------------------------------------------------------------------------
(* C24: what holds when a multi-resource wait has been left *)

\* C24: once a multi-resource wait has been left, by the break or by the
\* deadline, every identifier still in its list was read, and not ACTIVE nor
\* CREATE FAILED, the last time it was read; every identifier of the initial
\* list that is no longer in the list was read ACTIVE or CREATE FAILED the
\* last time; and the closing message "All ... have ended" (or "have
\* completed") has been printed, once, exactly when the list is empty.
C24_ExitConsistent ==
    \A op \in MultiWaits :
        JustLeft(op) =>
            /\ \A a \in Elems(lists[ListOf(op)]) :
                   lastStatus[a] \in Statuses \ {ACTIVE, CREATE_FAILED}
            /\ \A a \in Elems(InitialList(op)) \ Elems(lists[ListOf(op)]) :
                   lastStatus[a] \in {ACTIVE, CREATE_FAILED}
            /\ Count("All have ended", 0) = (IF lists[ListOf(op)] = <<>> THEN 1 ELSE 0)
            /\ lists[ListOf(op)] = <<>> => out[Len(out)].msg = "All have ended"

\* the wait of the solution versions left at its deadline, two versions done
\* and one still in the list
C24_Witness ==
    /\ JustLeft("wait_solution_versions")
    /\ Len(lists["soln_ver_arns"]) = 1
    /\ now >= max_time
    /\ Count("All have ended", 0) = 0

----------------------------------------------------------------------------
(* C25: every wait ends, and not before it has read what it waits for *)

\* one of the five waits is being executed
Polling == at \in {"head", "body", "sleep"}

\* the rounds a wait can start: one at time 0 and one after each sleep that
\* ends before the deadline
RoundLimit(op) == 1 + (MaxWait(op) \div SleepOf(op))

C25_BoundedState ==
    /\ Polling =>
          /\ Op \in MultiWaits \cup SingleWaits
          /\ SleepOf(Op) > 0
          /\ rounds <= RoundLimit(Op)
          /\ at = "head" => now >= rounds * SleepOf(Op)
          /\ at \in {"body", "sleep"} => now >= (rounds - 1) * SleepOf(Op)
    /\ \A op \in MultiWaits :
          JustLeft(op) =>
              /\ rounds >= 1
              /\ \A a \in Elems(InitialList(op)) : lastStatus[a] \in Statuses
    /\ \A op \in SingleWaits :
          JustLeft(op) =>
              /\ rounds >= 1
              /\ status \in Statuses
              /\ lastStatus[SingleArn(op)] = status

C25_ClockStep ==
    Polling =>
        /\ max_time' = max_time \/ ~Polling'
        /\ now' >= now \/ ~Polling'
        /\ (at = "sleep" /\ at' = "head") => now' >= now + SleepOf(Op)
        /\ (at = "head" /\ cell' # cell) => now >= max_time
        /\ (at = "head" /\ now >= max_time) => cell' = cell + 1

\* C25: a wait that is running stops being so: the deadline is fixed when the
\* wait starts, every sleep moves the clock on by the sleep interval at least,
\* and the loop head leaves once the clock has reached the deadline, whatever
\* the statuses read (a describe call that raises stops the cell instead).  A
\* wait that has been left has run a round, in which every identifier it
\* started from was read.
C25_EveryWaitEnds ==
    /\ []C25_BoundedState
    /\ [][C25_ClockStep]_vars
    /\ Polling ~> ~Polling

\* the wait of the dataset group left in its second round at the deadline, the
\* group never read ACTIVE or CREATE FAILED
C25_Witness ==
    /\ JustLeft("wait_dataset_group")
    /\ status = CREATE_IN_PROGRESS
    /\ rounds = 2
    /\ now >= max_time
    /\ error = ""

----------------------------------------------------------------------------
(* C26: the single-resource waits (dataset group, filter) *)

\* a step of the body of a single-resource wait in which the status was read
SingleReadStep == at = "body" /\ Op \in SingleWaits /\ out' # out

C26_SingleState ==
    \A op \in SingleWaits :
        /\ (InWait(op) /\ at \in {"sleep", "head"} /\ rounds > 0) =>
               /\ status \in Statuses \ {ACTIVE, CREATE_FAILED}
               /\ Len(out) = rounds
        /\ Around(op) =>
               /\ \A i \in DOMAIN out :
                      /\ out[i].msg = "status"
                      /\ out[i].arn = SingleArn(op)
                      /\ i < Len(out) => out[i].text \notin {ACTIVE, CREATE_FAILED}
               /\ error = ""
        /\ JustLeft(op) =>
               /\ status = lastStatus[SingleArn(op)]
               /\ out[Len(out)].text = status
               /\ Len(out) = rounds
               /\ status \in {ACTIVE, CREATE_FAILED} \/ now >= max_time

C26_SingleStep ==
    /\ SingleReadStep =>
          /\ out' = Append(out, Msg("status", SingleArn(Op), status'))
          /\ status' = lastStatus'[SingleArn(Op)]
          /\ IF status' = ACTIVE \/ status' = CREATE_FAILED
             THEN cell' = cell + 1 /\ at' \in {"start", "done"} /\ error' = ""
             ELSE cell' = cell /\ at' = "sleep"
    /\ (Op \in SingleWaits /\ at = "sleep") =>
          /\ at' = "head"
          /\ now' >= now + SleepSingle
          /\ status' = status
    /\ (Op \in SingleWaits /\ at = "head" /\ now < max_time) => at' = "body"

\* C26: in a single-resource wait the read of ACTIVE or of CREATE FAILED ends
\* the cell in the very step of the read, with no sleep after it, and both
\* the same way: one line with the status, no failure reason, no exception.
\* The read of any other status is followed by the sleep of 15 seconds and
\* the loop head, which reads again while the deadline has not passed.  When
\* the wait has been left, status is the status of the last read.
C26_SingleWaitBreaks == []C26_SingleState /\ [][C26_SingleStep]_vars

\* the filter read CREATE FAILED in the second round, before the deadline: the
\* wait has been left on that read
C26_Witness ==
    /\ JustLeft("wait_filter")
    /\ status = CREATE_FAILED
    /\ rounds = 2
    /\ now < max_time
    /\ out[1].text = CREATE_IN_PROGRESS

----------------------------------------------------------------------------
(* C27: what a schema cell leaves in its variable *)

\* C27: whenever the schema cell of Interactions, Items or Users has been
\* executed to its end by this kernel, on the path of the fresh creation or
\* on the path of the already-exists signal and the list_schemas scan, its
\* variable has been bound by this kernel, and to the ARN of the schema that
\* bears the name the cell passes to create_schema.
C27_SchemaBoundOnBothPaths ==
    \A k \in Roles :
        SchemaStepDone(k) =>
            /\ nb[SchemaVar(k)] # 0
            /\ \E i \in DOMAIN svc :
                   /\ svc[i].kind = "schema"
                   /\ svc[i].name = SchemaCreateName(k)
                   /\ svc[i].arn = nb[SchemaVar(k)]

----------------------------------------------------------------------------
(* C28: the role cell on its two paths *)

\* the position in calls of the call that gave the role cell its response:
\* create_role when it succeeded, get_role after the already-exists signal
RoleResponses ==
    {i \in DOMAIN calls :
        /\ calls[i].op \in {"create_role", "get_role"}
        /\ calls[i].name = RoleName
        /\ calls[i].result # 0
        /\ calls[i].op = "get_role" =>
               /\ i > 1
               /\ calls[i - 1].op = "create_role"
               /\ calls[i - 1].result = 0}

\* the positions of the attachments of AmazonS3ReadOnlyAccess to the role
Attachments ==
    {i \in DOMAIN calls :
        /\ calls[i].op = "attach_role_policy"
        /\ calls[i].name = RoleName
        /\ calls[i].data = PolicyArn}

\* C28: once the role cell has been executed to its end in this kernel,
\* role_arn is the ARN of the role named role_name, obtained from create_role
\* or, after the already-exists signal, from get_role, and the attachment of
\* AmazonS3ReadOnlyAccess to that role has been issued after it, on either
\* path; every create_dataset_import_job call passes that ARN and comes after
\* the attachment.
C28_RoleReadyBeforeImport ==
    /\ Past("create_role", "") =>
           /\ nb["role_arn"] # 0
           /\ nb["role_arn"] = Lookup("role", RoleName)
           /\ Cardinality(RoleResponses) = 1
           /\ Cardinality(Attachments) = 1
           /\ \A i \in RoleResponses :
                  /\ calls[i].result = nb["role_arn"]
                  /\ \A h \in Attachments : i < h
    /\ \A i \in DOMAIN calls :
           calls[i].op = "create_dataset_import_job" =>
               /\ calls[i].args[2] = Lookup("role", RoleName)
               /\ calls[i].args[2] # 0
               /\ \E j \in RoleResponses :
                      /\ calls[j].result = calls[i].args[2]
                      /\ \E h \in Attachments : j < h /\ h < i

\* the first import job has been created with the ARN get_role returned for a
\* role that was there before the notebook ran
C28_Witness ==
    /\ At("create_dataset_import_job", "users")
    /\ run = 1
    /\ \E j \in RoleResponses : calls[j].op = "get_role"
    /\ \E i \in DOMAIN calls :
           calls[i].op = "create_dataset_import_job" /\ calls[i].args[2] = nb["role_arn"]

----------------------------------------------------------------------------
(* C29: the deadline is tested at the loop head only *)

C29_HeadOnlyStep ==
    /\ (Polling /\ cell' # cell) =>
          \/ at = "head" /\ ~(now < max_time)
          \/ at = "body" /\ Op \in MultiWaits /\ Exhausted(Op) /\ lists[ListOf(Op)] = <<>>
          \/ at = "body" /\ Op \in SingleWaits /\ status' \in {ACTIVE, CREATE_FAILED}
    /\ (at = "body" /\ Op \in MultiWaits /\ ~Exhausted(Op)) =>
          /\ cell' = cell
          /\ at' \in {"body", "aborted"}
          /\ at' = "body" =>
                 /\ item' = lists[ListOf(Op)][it_index + 1]
                 /\ lastStatus'[item'] = status'
                 /\ described' = Append(described, item')
    /\ (at = "body" /\ Op \in MultiWaits /\ Exhausted(Op) /\ lists[ListOf(Op)] # <<>>) =>
          /\ Len(described) = Len(roundStart)
          /\ at' = "sleep"
    /\ at = "sleep" => (at' = "head" /\ cell' = cell)
    /\ at = "head" =>
          /\ lastStatus' = lastStatus
          /\ status' = status
          /\ described' = <<>> \/ described' = described
          /\ now < max_time => (at' = "body" /\ cell' = cell)
          /\ ~(now < max_time) => (cell' = cell + 1 /\ at' \in {"start", "done"})

\* C29: a wait is left at its deadline from the loop head only.  In the body
\* of a multi-resource wait every identifier the round started with is read,
\* the clock before or past the deadline alike, and a round with something
\* left pending goes to its sleep; the sleep is followed by the loop head,
\* and the head, the deadline passed, leaves the wait with no status read.
C29_DeadlineAtHeadOnly == [][C29_HeadOnlyStep]_vars

\* the first round of the solution versions ran past the deadline and read the
\* three versions all the same; the wait sleeps before it finds out
C29_Witness ==
    /\ InWait("wait_solution_versions")
    /\ at = "sleep"
    /\ rounds = 1
    /\ now >= max_time
    /\ \A a \in Elems(InitialList("wait_solution_versions")) : lastStatus[a] \in Statuses
    /\ lastStatus[nb[SolutionVersionVar("related")]] = CREATE_IN_PROGRESS

====
